---------------------------- MODULE Spec2Model ----------------------------
(***************************************************************************)
(* Trust flow: the time-decayed, mass-conserving PageRank variant of       *)
(* src/main.rs.                                                            *)
(*                                                                         *)
(* Spec is one call of pagerank_variant, the rank engine, with arguments   *)
(* drawn from small sets, iteration by iteration.  SpecScenario is         *)
(* plot_scenario: the teleport vector, then the frames of the time loop,   *)
(* each of which decays the weights and calls pagerank_variant on them.    *)
(*                                                                         *)
(* Reals (f64 in the source) are exact fractions in lowest terms, and NaN  *)
(* is the f64 NaN (the only non-finite value the engine can store,         *)
(* 0.0 / 0.0 when num_of_nodes = 0).  A vector Vec<f64> is a sequence,     *)
(* element i of the source being element i + 1 here.                       *)
(***************************************************************************)
EXTENDS Integers, Sequences, FiniteSets

VARIABLES
    pc,                      \* position of the program
    edges,                   \* &[Edge]
    weights,                 \* &[f64], aligned with edges
    num_of_nodes,
    num_of_iterations,
    damping_factor,
    teleportation_targets,
    rank_values,             \* pagerank_variant: let mut rank_values
    initial_outflow_values,  \* pagerank_variant: static out-degree per node
    iteration,               \* iterations of the loop of line 40 completed
    dangling_rank,           \* dangling pool of the last completed iteration
    expert_nodes,            \* plot_scenario: Vec<usize>
    expert_fraction,         \* EXPERT_TELEPORT_FRACTION
    time,                    \* plot_scenario: the frame of the time loop
    decay_calls              \* the <<t1, t0>> exponential_decay was called
                             \* with for the current frame

\* What plot_scenario alone reads and writes
scenarioVars == <<expert_nodes, expert_fraction, time, decay_calls>>

\* What pagerank_variant alone reads and writes
engineVars == <<num_of_iterations, damping_factor, rank_values,
                initial_outflow_values, iteration, dangling_rank>>

vars == <<pc, edges, weights, num_of_nodes, teleportation_targets,
          engineVars, scenarioVars>>

---------------------------------------------------------------------------
(* Bounds of the model *)

\* a graph has at most MaxGraph nodes and edges together
MaxGraph == 3

\* pagerank_variant runs at most MaxIter iterations
MaxIter == 2

---------------------------------------------------------------------------
(* Exact arithmetic standing for f64 arithmetic.                            *)
(*                                                                         *)
(* A natural number is the sequence of its digits to the base Base, the    *)
(* least significant first and the most significant not 0 (0 is <<>>).  An *)
(* integer is <<sign, natural>>, sign in {-1, 0, 1}.  A real is            *)
(* <<integer, exponents>>: the fraction integer / (Primes[1]^exponents[1]  *)
(* * Primes[2]^exponents[2] * ...) in lowest terms, so that equal reals    *)
(* are equal values.  Every divisor of the program is a count              *)
(* (num_of_nodes, an out-degree, expert_nodes.len()) or a power of ten,    *)
(* whose prime factors are among Primes.                                   *)

Base == 10000

Primes == <<2, 3, 5, 7, 11, 13>>

Min(a, b) == IF a <= b THEN a ELSE b

Max(a, b) == IF a >= b THEN a ELSE b

RECURSIVE Strip(_)
Strip(m) ==
    IF m = <<>> \/ m[Len(m)] # 0 THEN m ELSE Strip(SubSeq(m, 1, Len(m) - 1))

Digit(m, i) == IF i <= Len(m) THEN m[i] ELSE 0

RECURSIVE MagAddFrom(_, _, _, _, _)
MagAddFrom(a, b, i, carry, acc) ==
    IF i > Len(a) /\ i > Len(b)
    THEN IF carry = 0 THEN acc ELSE Append(acc, carry)
    ELSE LET s == Digit(a, i) + Digit(b, i) + carry
         IN  MagAddFrom(a, b, i + 1, s \div Base, Append(acc, s % Base))

MagAdd(a, b) == MagAddFrom(a, b, 1, 0, <<>>)

\* a - b for a >= b
RECURSIVE MagSubFrom(_, _, _, _, _)
MagSubFrom(a, b, i, borrow, acc) ==
    IF i > Len(a) THEN Strip(acc)
    ELSE LET s == a[i] - Digit(b, i) - borrow
         IN  IF s < 0 THEN MagSubFrom(a, b, i + 1, 1, Append(acc, s + Base))
             ELSE MagSubFrom(a, b, i + 1, 0, Append(acc, s))

MagSub(a, b) == MagSubFrom(a, b, 1, 0, <<>>)

RECURSIVE MagLessFrom(_, _, _)
MagLessFrom(a, b, i) ==
    IF i = 0 THEN FALSE
    ELSE IF a[i] # b[i] THEN a[i] < b[i]
    ELSE MagLessFrom(a, b, i - 1)

MagLess(a, b) ==
    IF Len(a) # Len(b) THEN Len(a) < Len(b) ELSE MagLessFrom(a, b, Len(a))

\* a * k for an Int k, 0 <= k < 20 * Base
RECURSIVE MagMulSmallFrom(_, _, _, _, _)
MagMulSmallFrom(a, k, i, carry, acc) ==
    IF i > Len(a) /\ carry = 0 THEN acc
    ELSE LET s == Digit(a, i) * k + carry
         IN  MagMulSmallFrom(a, k, i + 1, s \div Base, Append(acc, s % Base))

MagMulSmall(a, k) ==
    IF k = 0 THEN <<>> ELSE IF k = 1 THEN a ELSE MagMulSmallFrom(a, k, 1, 0, <<>>)

\* a * b, from digit i of b on
RECURSIVE MagMulFrom(_, _, _)
MagMulFrom(a, b, i) ==
    IF i > Len(b) THEN <<>>
    ELSE LET rest == MagMulFrom(a, b, i + 1)
         IN  MagAdd(MagMulSmall(a, b[i]),
                    IF rest = <<>> THEN rest ELSE <<0>> \o rest)

MagMul(a, b) ==
    IF a = <<>> \/ b = <<>> THEN <<>>
    ELSE IF Len(b) = 1 THEN MagMulSmall(a, b[1])
    ELSE IF Len(a) = 1 THEN MagMulSmall(b, a[1])
    ELSE IF Len(b) <= Len(a) THEN MagMulFrom(a, b, 1) ELSE MagMulFrom(b, a, 1)

\* a mod p for an Int p, from digit i down
RECURSIVE MagModFrom(_, _, _, _)
MagModFrom(a, p, i, rem) ==
    IF i = 0 THEN rem ELSE MagModFrom(a, p, i - 1, (rem * Base + a[i]) % p)

MagMod(a, p) == MagModFrom(a, p, Len(a), 0)

\* a div p for an Int p, from digit i down
RECURSIVE MagDivFrom(_, _, _, _, _)
MagDivFrom(a, p, i, rem, acc) ==
    IF i = 0 THEN Strip(acc)
    ELSE LET cur == rem * Base + a[i]
         IN  MagDivFrom(a, p, i - 1, cur % p, <<cur \div p>> \o acc)

MagDiv(a, p) == MagDivFrom(a, p, Len(a), 0, <<>>)

\* the natural number of the Int n >= 0
RECURSIVE MagOf(_)
MagOf(n) == IF n = 0 THEN <<>> ELSE <<n % Base>> \o MagOf(n \div Base)

\* the Int of a natural number below Base * Base
IntOf(m) == Digit(m, 1) + Base * Digit(m, 2)

ZNeg(x) == <<-x[1], x[2]>>

ZAdd(x, y) ==
    IF x[1] = 0 THEN y
    ELSE IF y[1] = 0 THEN x
    ELSE IF x[1] = y[1] THEN <<x[1], MagAdd(x[2], y[2])>>
    ELSE IF x[2] = y[2] THEN <<0, <<>>>>
    ELSE IF MagLess(x[2], y[2]) THEN <<y[1], MagSub(y[2], x[2])>>
    ELSE <<x[1], MagSub(x[2], y[2])>>

ZMul(x, y) == <<x[1] * y[1], MagMul(x[2], y[2])>>

NoExponents == [i \in 1..Len(Primes) |-> 0]

RECURSIVE Pow(_, _)
Pow(p, k) == IF k = 0 THEN 1 ELSE p * Pow(p, k - 1)

\* m * Primes[i]^c * Primes[i+1]^e[i+1] * ..., four factors at a time
RECURSIVE MagScale(_, _, _, _)
MagScale(m, e, i, c) ==
    IF c > 0 THEN MagScale(MagMulSmall(m, Pow(Primes[i], Min(c, 4))), e, i, c - Min(c, 4))
    ELSE IF i = Len(Primes) THEN m
    ELSE MagScale(m, e, i + 1, e[i + 1])

\* The fraction <<sign, m>> / Primes^e in lowest terms, from prime i on
RECURSIVE Lowest(_, _, _, _)
Lowest(sign, m, e, i) ==
    IF i > Len(Primes) THEN <<(<<sign, m>>), e>>
    ELSE IF e[i] > 0 /\ MagMod(m, Primes[i]) = 0
    THEN Lowest(sign, MagDiv(m, Primes[i]), [e EXCEPT ![i] = @ - 1], i)
    ELSE Lowest(sign, m, e, i + 1)

Norm(z, e) ==
    IF z[1] = 0 THEN <<z, NoExponents>>
    ELSE IF e = NoExponents THEN <<z, e>>
    ELSE Lowest(z[1], z[2], e, 1)

\* 0.0 / 0.0
NaN == <<(<<2, <<>>>>), NoExponents>>

IsNaN(x) == x[1][1] = 2

\* n as f64
Rat(n) ==
    <<(<<IF n > 0 THEN 1 ELSE IF n < 0 THEN -1 ELSE 0,
         MagOf(IF n < 0 THEN -n ELSE n)>>), NoExponents>>

Zero == Rat(0)

One == Rat(1)

RAdd(a, b) ==
    IF IsNaN(a) \/ IsNaN(b) THEN NaN
    ELSE IF a[2] = b[2] THEN Norm(ZAdd(a[1], b[1]), a[2])
    ELSE LET l == [i \in 1..Len(Primes) |-> Max(a[2][i], b[2][i])]
             up(x) == IF x[1][1] = 0 THEN x[1]
                      ELSE LET d == [i \in 1..Len(Primes) |-> l[i] - x[2][i]]
                           IN  <<x[1][1], MagScale(x[1][2], d, 1, d[1])>>
         IN  Norm(ZAdd(up(a), up(b)), l)

RNeg(a) == <<ZNeg(a[1]), a[2]>>

RSub(a, b) == IF IsNaN(b) THEN NaN ELSE RAdd(a, RNeg(b))

RMul(a, b) ==
    IF IsNaN(a) \/ IsNaN(b) THEN NaN
    ELSE IF a[1][1] = 0 \/ b[1][1] = 0 THEN Zero
    ELSE Norm(ZMul(a[1], b[1]), [i \in 1..Len(Primes) |-> a[2][i] + b[2][i]])

\* The exponents of the prime factors of the natural number m, from prime i
\* on, added to e
RECURSIVE Factors(_, _, _)
Factors(m, e, i) ==
    IF m = <<1>> THEN e
    ELSE IF MagMod(m, Primes[i]) = 0
    THEN Factors(MagDiv(m, Primes[i]), [e EXCEPT ![i] = @ + 1], i)
    ELSE Factors(m, e, i + 1)

\* a / b in f64: 0.0 / 0.0 is NaN, and the program stores the quotient of no
\* other division by zero (for num_of_nodes = 0 the vectors of InitialRank and
\* BaseShare are empty, and every edge source has an out-degree >= 1).
RDiv(a, b) ==
    IF IsNaN(a) \/ IsNaN(b) \/ b[1][1] = 0 THEN NaN
    ELSE RMul(a, Norm(<<b[1][1], MagScale(<<1>>, b[2], 1, b[2][1])>>,
                      Factors(b[1][2], NoExponents, 1)))

\* the fraction n / d of two Int
Frac(n, d) == RDiv(Rat(n), Rat(d))

Half == Frac(1, 2)

\* the Int of an integral real below Base * Base
Floor(x) == x[1][1] * IntOf(x[1][2])

RLeq(a, b) == RSub(b, a)[1][1] >= 0

RLess(a, b) == RSub(b, a)[1][1] > 0

RECURSIVE SumFrom(_, _)
SumFrom(s, k) == IF k > Len(s) THEN Zero ELSE RAdd(s[k], SumFrom(s, k + 1))

\* iter().sum() of a vector
Sum(s) == SumFrom(s, 1)

---------------------------------------------------------------------------
(* struct Edge *)

Edge(s, t, c) == [source |-> s, target |-> t, time_of_creation |-> c]

---------------------------------------------------------------------------
(* pagerank_variant, lines 20-81 *)

\* Mutant of InitialRank: a warm start from the vector of the previous snapshot
InitialRankWarm(n) ==
    IF Len(rank_values) = n /\ n > 0 THEN rank_values
    ELSE [i \in 1..n |-> RDiv(One, Rat(n))]

\* line 33: vec![1.0 / num_of_nodes as f64; num_of_nodes]
InitialRank(n) == [i \in 1..n |-> RDiv(One, Rat(n))]

\* lines 35-38: the number of edges leaving each node, whatever their weight
InitialOutflow(es, n) ==
    [i \in 1..n |-> Cardinality({k \in 1..Len(es) : es[k].source = i - 1})]

\* line 37 indexes initial_outflow_values with every edge's source
SourcesInRange(es, n) == \A k \in 1..Len(es) : es[k].source < n

\* lines 42-45: the teleportation inflow, one entry per entry of the
\* teleport vector
TeleportInflow(d, tele) ==
    [i \in 1..Len(tele) |-> RMul(RSub(One, d), tele[i])]

\* lines 52-54: the rank carried by one edge
EdgeFlow(d, rank, w, initial_outflow) ==
    RMul(RMul(d, rank), RDiv(w, Rat(initial_outflow)))

\* Mutant of EdgeLoop: the rank of the source is read from the vector being
\* written (an update in place)
RECURSIVE EdgeLoopInPlace(_, _, _, _, _, _, _)
EdgeLoopInPlace(es, ws, d, rank, deg, acc, k) ==
    IF k > Min(Len(es), Len(ws)) \/ ~acc.ok THEN acc
    ELSE LET e == es[k]
             s == e.source + 1
             t == e.target + 1
         IN  IF s > Len(rank) \/ s > Len(acc.new_rank_values)
                \/ t > Len(acc.new_rank_values)
             THEN [acc EXCEPT !.ok = FALSE]
             ELSE EdgeLoopInPlace(es, ws, d, rank, deg,
                      [ok |-> TRUE,
                       outflow_values |->
                           [acc.outflow_values EXCEPT ![s] = RAdd(@, ws[k])],
                       new_rank_values |->
                           [acc.new_rank_values EXCEPT
                               ![t] = RAdd(@, EdgeFlow(d, acc.new_rank_values[s],
                                                       ws[k], deg[s]))]],
                      k + 1)

\* lines 49-55: the loop over edges.iter().zip(weights.iter()), from pair k
\* on.  acc = [ok, outflow_values, new_rank_values]; ok becomes FALSE when an
\* index is out of bounds (the program panics).  rank is the vector of the
\* previous iteration: nothing written to acc.new_rank_values is read.
RECURSIVE EdgeLoop(_, _, _, _, _, _, _)
EdgeLoop(es, ws, d, rank, deg, acc, k) ==
    IF k > Min(Len(es), Len(ws)) \/ ~acc.ok THEN acc
    ELSE LET e == es[k]
             s == e.source + 1
             t == e.target + 1
         IN  IF s > Len(rank) \/ t > Len(acc.new_rank_values)
             THEN [acc EXCEPT !.ok = FALSE]
             ELSE EdgeLoop(es, ws, d, rank, deg,
                      [ok |-> TRUE,
                       outflow_values |->
                           [acc.outflow_values EXCEPT ![s] = RAdd(@, ws[k])],
                       new_rank_values |->
                           [acc.new_rank_values EXCEPT
                               ![t] = RAdd(@, EdgeFlow(d, rank[s], ws[k], deg[s]))]],
                      k + 1)

\* Mutant of DanglingContribution: only the nodes without edges feed the pool
DanglingContributionNoRemainder(d, rank, outflow, initial_outflow) ==
    IF initial_outflow > 0 THEN Zero ELSE RMul(d, rank)

\* Mutant of DanglingContribution: the remainder with its operands swapped
DanglingContributionSwapped(d, rank, outflow, initial_outflow) ==
    IF initial_outflow > 0
    THEN LET allocated == RMul(RMul(d, rank), RDiv(outflow, Rat(initial_outflow)))
         IN  RSub(allocated, RMul(d, rank))
    ELSE RMul(d, rank)

\* Mutant of DanglingContribution: the outflow is not divided by the static
\* out-degree
DanglingContributionUnnormalised(d, rank, outflow, initial_outflow) ==
    IF initial_outflow > 0
    THEN RSub(RMul(d, rank), RMul(RMul(d, rank), outflow))
    ELSE RMul(d, rank)

\* lines 60-68: what node i adds to the dangling pool
DanglingContribution(d, rank, outflow, initial_outflow) ==
    IF initial_outflow > 0
    THEN LET allocated == RMul(RMul(d, rank), RDiv(outflow, Rat(initial_outflow)))
         IN  RSub(RMul(d, rank), allocated)
    ELSE RMul(d, rank)

\* lines 58-69: the loop over the nodes, from node i (1-based) on.
\* acc = [ok, dangling_rank].
RECURSIVE DanglingLoop(_, _, _, _, _, _, _)
DanglingLoop(d, rank, deg, outflow, n, acc, i) ==
    IF i > n \/ ~acc.ok THEN acc
    ELSE IF i > Len(rank) THEN [acc EXCEPT !.ok = FALSE]
    ELSE DanglingLoop(d, rank, deg, outflow, n,
             [ok |-> TRUE,
              dangling_rank |->
                  RAdd(acc.dangling_rank,
                       DanglingContribution(d, rank[i], outflow[i], deg[i]))],
             i + 1)

\* line 70: dangling_rank / num_of_nodes as f64
DanglingShare(dangling, n) == RDiv(dangling, Rat(n))

\* lines 71-73
AddShare(new_rank, share) == [i \in 1..Len(new_rank) |-> RAdd(new_rank[i], share)]

\* lines 70-75: the end of an iteration, after the loop over the nodes has
\* left pool = [ok, dangling_rank].  [ok, rank_values, dangling_rank]
ShareOut(n, rank, new_rank, pool) ==
    IF pool.ok
    THEN [ok |-> TRUE,
          rank_values |-> AddShare(new_rank, DanglingShare(pool.dangling_rank, n)),
          dangling_rank |-> pool.dangling_rank]
    ELSE [ok |-> FALSE, rank_values |-> rank, dangling_rank |-> Zero]

\* lines 57-75: an iteration after the loop over the edges has left
\* flow = [ok, outflow_values, new_rank_values]
DanglingPass(n, d, rank, deg, flow) ==
    ShareOut(n, rank, flow.new_rank_values,
             IF flow.ok
             THEN DanglingLoop(d, rank, deg, flow.outflow_values, n,
                      [ok |-> TRUE, dangling_rank |-> Zero], 1)
             ELSE [ok |-> FALSE, dangling_rank |-> Zero])

\* lines 41-75: one iteration of the loop of line 40.
\* [ok, rank_values, dangling_rank]
IterationBody(es, ws, n, d, tele, rank, deg) ==
    DanglingPass(n, d, rank, deg,
        EdgeLoop(es, ws, d, rank, deg,
            [ok |-> TRUE,
             outflow_values |-> [i \in 1..n |-> Zero],
             new_rank_values |-> TeleportInflow(d, tele)], 1))

\* lines 40-76: the loop of line 40 after k iterations have left
\* st = [ok, rank_values, dangling_rank], up to iters iterations.
\* [ok, rank_values, dangling_rank, iteration]
RECURSIVE IterationLoop(_, _, _, _, _, _, _, _, _)
IterationLoop(es, ws, n, iters, d, tele, deg, st, k) ==
    IF ~st.ok
    THEN [ok |-> FALSE, rank_values |-> st.rank_values,
          dangling_rank |-> st.dangling_rank, iteration |-> k - 1]
    ELSE IF k >= iters
    THEN [ok |-> TRUE, rank_values |-> st.rank_values,
          dangling_rank |-> st.dangling_rank, iteration |-> k]
    ELSE IterationLoop(es, ws, n, iters, d, tele, deg,
             IterationBody(es, ws, n, d, tele, st.rank_values, deg), k + 1)

\* lines 20-81: the whole call.  [ok, rank_values, dangling_rank, iteration];
\* ok is FALSE when the call panics.
pagerank_variant(es, ws, n, iters, d, tele) ==
    IF SourcesInRange(es, n)
    THEN IterationLoop(es, ws, n, iters, d, tele, InitialOutflow(es, n),
             [ok |-> TRUE, rank_values |-> InitialRank(n),
              dangling_rank |-> Zero], 0)
    ELSE [ok |-> FALSE, rank_values |-> <<>>, dangling_rank |-> Zero,
          iteration |-> 0]

---------------------------------------------------------------------------
(* The arguments pagerank_variant is called with *)

Two == Rat(2)

WeightValues == {Zero, Half, One, Two}

DampingValues == {Zero, Half, One}

TeleportValues == {Zero, Half, One}

IterationCounts == {0, MaxIter}

EdgesOver(n) == {Edge(s, t, 0) : s \in 0..(n - 1), t \in 0..(n - 1)}

SeqsUpTo(S, m) == UNION {[1..k -> S] : k \in 0..m}

\* The preconditions of run: section 4.3 of the specification
Preconditions(es, ws, n, d, tele) ==
    /\ n > 0
    /\ Len(ws) = Len(es)
    /\ \A k \in 1..Len(es) : es[k].source < n /\ es[k].target < n
    /\ Len(tele) = n
    /\ Sum(tele) = One
    /\ RLeq(Zero, d) /\ RLeq(d, One)

\* The data model of section 3: weights and teleport entries are >= 0
NonNegative(s) == \A k \in 1..Len(s) : RLeq(Zero, s[k])

PreconditionsHold ==
    Preconditions(edges, weights, num_of_nodes, damping_factor,
                  teleportation_targets)

Valid ==
    /\ PreconditionsHold
    /\ NonNegative(weights)
    /\ NonNegative(teleportation_targets)

\* Arguments with one precondition broken: fault f applied to valid
\* arguments (es, ws, n, d, tele).
Faulty(f, es, ws, n, d, tele) ==
    CASE f = 1 -> [es |-> es, ws |-> Append(ws, One), n |-> n, d |-> d, tele |-> tele]
      [] f = 2 -> [es |-> Append(es, Edge(0, 0, 0)), ws |-> ws, n |-> n, d |-> d, tele |-> tele]
      [] f = 3 -> [es |-> es, ws |-> ws, n |-> n, d |-> d, tele |-> Append(tele, Zero)]
      [] f = 4 -> [es |-> es, ws |-> ws, n |-> n, d |-> d, tele |-> SubSeq(tele, 1, n - 1)]
      [] f = 5 -> [es |-> es, ws |-> ws, n |-> n, d |-> d, tele |-> [i \in 1..n |-> Zero]]
      [] f = 6 -> [es |-> es, ws |-> ws, n |-> n, d |-> Frac(3, 2), tele |-> tele]
      [] f = 7 -> [es |-> es, ws |-> ws, n |-> n, d |-> Frac(-1, 2), tele |-> tele]
      [] f = 8 -> [es |-> es, ws |-> ws, n |-> 0, d |-> d, tele |-> tele]
      [] f = 9 -> [es |-> Append(es, Edge(n, 0, 0)), ws |-> Append(ws, One), n |-> n, d |-> d, tele |-> tele]
      [] f = 10 -> [es |-> Append(es, Edge(0, n, 0)), ws |-> Append(ws, One), n |-> n, d |-> d, tele |-> tele]

Faults == 1..10

\* The entry of pagerank_variant with these arguments

Entered(es, ws, n, iters, d, tele) ==
    /\ pc = "start"
    /\ edges = es
    /\ weights = ws
    /\ num_of_nodes = n
    /\ num_of_iterations = iters
    /\ damping_factor = d
    /\ teleportation_targets = tele
    /\ rank_values = <<>>
    /\ initial_outflow_values = <<>>
    /\ iteration = 0
    /\ dangling_rank = Zero
    /\ expert_nodes = <<>>
    /\ expert_fraction = Zero
    /\ time = 0
    /\ decay_calls = {}

\* Calls that meet the preconditions
InitValid ==
    \E n \in 1..(MaxGraph - 1) :
    \E tele \in {t \in [1..n -> TeleportValues] : Sum(t) = One} :
    \E es \in SeqsUpTo(EdgesOver(n), MaxGraph - n) :
    \E ws \in [1..Len(es) -> WeightValues] :
    \E iters \in IterationCounts :
    \E d \in DampingValues :
        Entered(es, ws, n, iters, d, tele)

\* Calls that break one precondition
InitFaulty ==
    \E n \in 1..(MaxGraph - 1) :
    \E tele \in {t \in [1..n -> TeleportValues] : Sum(t) = One} :
    \E es \in SeqsUpTo(EdgesOver(n), MaxGraph - n - 1) :
    \E iters \in IterationCounts :
    \E f \in Faults :
        /\ LET a == Faulty(f, es, [k \in 1..Len(es) |-> One], n, Half, tele)
           IN  Entered(a.es, a.ws, a.n, iters, a.d, a.tele)

Init == InitValid \/ InitFaulty

---------------------------------------------------------------------------
(* The steps of pagerank_variant *)

\* lines 33-38
Initialize ==
    /\ iteration' = 0
    /\ dangling_rank' = Zero
    /\ IF SourcesInRange(edges, num_of_nodes)
       THEN /\ rank_values' = InitialRank(num_of_nodes)
            /\ initial_outflow_values' = InitialOutflow(edges, num_of_nodes)
            /\ pc' = "loop"
       ELSE /\ pc' = "panic"    \* index out of bounds at line 37
            /\ UNCHANGED <<rank_values, initial_outflow_values>>
    /\ UNCHANGED <<edges, weights, num_of_nodes, num_of_iterations,
                   damping_factor, teleportation_targets, scenarioVars>>

\* The call
Enter ==
    /\ pc = "start"
    /\ Initialize

\* line 75: what an iteration that returned r leaves
Iterated(r) ==
    IF r.ok
    THEN /\ rank_values' = r.rank_values
         /\ dangling_rank' = r.dangling_rank
         /\ iteration' = iteration + 1
         /\ pc' = "loop"
    ELSE /\ pc' = "panic"    \* index out of bounds at line 51, 53 or 60
         /\ UNCHANGED <<rank_values, dangling_rank, iteration>>

\* lines 40-76: one iteration
Iterate ==
    /\ pc = "loop"
    /\ iteration < num_of_iterations
    /\ Iterated(IterationBody(edges, weights, num_of_nodes, damping_factor,
                teleportation_targets, rank_values, initial_outflow_values))
    /\ UNCHANGED <<edges, weights, num_of_nodes, num_of_iterations,
                   damping_factor, teleportation_targets, initial_outflow_values,
                   scenarioVars>>

\* line 80: rank_values is returned
Return ==
    /\ pc = "loop"
    /\ iteration = num_of_iterations
    /\ pc' = "done"
    /\ UNCHANGED <<edges, weights, num_of_nodes, num_of_iterations,
                   damping_factor, teleportation_targets, rank_values,
                   initial_outflow_values, iteration, dangling_rank,
                   scenarioVars>>

Next == Enter \/ Iterate \/ Return

Spec == Init /\ [][Next]_vars

---------------------------------------------------------------------------
(* exponential_decay and plot_scenario, lines 16-18 and 124-161 *)

\* line 6: DECAY_CONSTANT = 0.1
DECAY_CONSTANT == Frac(1, 10)

\* line 7: EXPERT_TELEPORT_FRACTION = 0.8
EXPERT_TELEPORT_FRACTION == Frac(4, 5)

\* line 138: max_time
max_time == 20

\* line 145: num_of_iterations of every frame
frame_iterations == 10

\* line 146: damping_factor of every frame
frame_damping_factor == Half

\* f64::exp at -k/10, k = 0..21, to three decimals; exp(0) is exactly 1
ExpTable ==
    <<1000, 905, 819, 741, 670, 607, 549, 497, 449, 407, 368,
      333, 301, 273, 247, 223, 202, 183, 165, 150, 135, 122>>

\* (-x).exp() for x = k/10
ExpNeg(x) == Frac(ExpTable[Floor(RMul(Rat(10), x)) + 1], 1000)

\* lines 16-18.  t1 - t0 is a subtraction of usize: for t1 < t0 a build with
\* overflow checks panics, and a build without them wraps to 2^64 - (t0 - t1),
\* where exp underflows to 0.0 (decay_constant > 0).  FrameAt takes the panic
\* into account; this is the value when there is one.
exponential_decay(t1, t0, weight_at_t0, decay_constant) ==
    IF t1 >= t0
    THEN RMul(weight_at_t0, ExpNeg(RMul(Rat(t1 - t0), decay_constant)))
    ELSE Zero

\* Mutant of EdgeCreated: exponential_decay is called without the guard
EdgeCreatedAlways(e, t) == TRUE

\* line 141: the guard of the call of exponential_decay
EdgeCreated(e, t) == e.time_of_creation <= t

\* lines 140-143: the weight of edge e at frame t
DecayedWeight(e, t) ==
    IF EdgeCreated(e, t)
    THEN exponential_decay(t, e.time_of_creation, One, DECAY_CONSTANT)
    ELSE Zero

\* lines 140-143: decayed_weights
DecayedWeights(es, t) == [k \in 1..Len(es) |-> DecayedWeight(es[k], t)]

\* the arguments (t1, t0) of the calls of exponential_decay of frame t
DecayCalls(es, t) ==
    {<<t, es[k].time_of_creation>> : k \in {j \in 1..Len(es) : EdgeCreated(es[j], t)}}

\* line 133: the share every node starts with
BaseShare(fraction, n) == RDiv(RSub(One, fraction), Rat(n))

\* Mutant of ExpertBonus: the fraction is not split among the experts
ExpertBonusUnsplit(fraction, experts) == fraction

\* line 135: what one entry of expert_nodes adds
ExpertBonus(fraction, experts) == RDiv(fraction, Rat(Len(experts)))

\* lines 134-136: the loop over expert_nodes, from entry k on.
\* acc = [ok, teleportation_targets]; ok becomes FALSE when an entry of
\* expert_nodes is not an index of the vector (the program panics at line 135).
RECURSIVE ExpertLoop(_, _, _, _)
ExpertLoop(acc, experts, fraction, k) ==
    IF k > Len(experts) \/ ~acc.ok THEN acc
    ELSE IF experts[k] + 1 > Len(acc.teleportation_targets)
    THEN [acc EXCEPT !.ok = FALSE]
    ELSE ExpertLoop(
             [ok |-> TRUE,
              teleportation_targets |->
                  [acc.teleportation_targets EXCEPT
                      ![experts[k] + 1] = RAdd(@, ExpertBonus(fraction, experts))]],
             experts, fraction, k + 1)

\* lines 133-136: teleportation_targets, [ok, teleportation_targets]
BuildTeleport(n, experts, fraction) ==
    ExpertLoop([ok |-> TRUE,
                teleportation_targets |-> [i \in 1..n |-> BaseShare(fraction, n)]],
               experts, fraction, 1)

\* main, lines 165-173
MainEdges ==
    <<Edge(0, 1, 1), Edge(1, 2, 2), Edge(1, 3, 3),
      Edge(3, 4, 4), Edge(3, 5, 5), Edge(5, 1, 6)>>

MainNodes == 6

MainExperts == <<0>>

---------------------------------------------------------------------------
(* Bounds and inputs of plot_scenario *)

\* plot_scenario is called with at most MaxScenarioNodes nodes,
MaxScenarioNodes == 2

\* at most MaxScenarioEdges edges
MaxScenarioEdges == 2

\* and an expert list of at most MaxExperts entries
MaxExperts == 3

\* created at frame 0, during the loop, at its last frame, after it
CreationTimes == {0, 2, max_time, max_time + 1}

\* The expert fraction: the constant of line 7 and the two ends of [0, 1]
Fractions == {Zero, EXPERT_TELEPORT_FRACTION, One}

ScenarioEntered(es, n, experts, fraction) ==
    /\ pc = "plot_scenario"
    /\ edges = es
    /\ num_of_nodes = n
    /\ expert_nodes = experts
    /\ expert_fraction = fraction
    /\ teleportation_targets = <<>>
    /\ weights = <<>>
    /\ time = 0
    /\ decay_calls = {}
    /\ num_of_iterations = 0
    /\ damping_factor = Zero
    /\ rank_values = <<>>
    /\ initial_outflow_values = <<>>
    /\ iteration = 0
    /\ dangling_rank = Zero

\* The call of main
InitMain ==
    ScenarioEntered(MainEdges, MainNodes, MainExperts, EXPERT_TELEPORT_FRACTION)

\* The sequences of Int in ascending order, equal neighbours included
Ascending(s) == \A i \in 1..(Len(s) - 1) : s[i] <= s[i + 1]

\* Calls that differ in their expert list, whose entries are nodes of the
\* graph or the first index that is none, in ascending order
InitExperts ==
    \E n \in 0..MaxScenarioNodes :
    \E experts \in SeqsUpTo(0..n, MaxExperts) :
    \E fraction \in Fractions :
        /\ Ascending(experts)
        /\ ScenarioEntered(<<>>, n, experts, fraction)

\* Calls on small graphs whose edges differ in their time of creation, the
\* edges in the order of their creation
InitEdges ==
    \E n \in 1..MaxScenarioNodes :
    \E times \in SeqsUpTo(CreationTimes, MaxScenarioEdges) :
        /\ times # <<>>
        /\ Ascending(times)
        /\ ScenarioEntered([k \in 1..Len(times) |-> Edge(0, n - 1, times[k])],
                           n, <<0>>, EXPERT_TELEPORT_FRACTION)

InitScenario == InitMain \/ InitExperts \/ InitEdges

\* lines 133-136
Teleport ==
    /\ pc = "plot_scenario"
    /\ LET r == BuildTeleport(num_of_nodes, expert_nodes, expert_fraction)
       IN  IF r.ok
           THEN /\ teleportation_targets' = r.teleportation_targets
                /\ pc' = "teleport"
           ELSE /\ pc' = "panic"    \* index out of bounds at line 135
                /\ UNCHANGED teleportation_targets
    /\ UNCHANGED <<edges, weights, num_of_nodes, engineVars, scenarioVars>>

\* lines 147-154: what the call of pagerank_variant on the weights ws, which
\* returned r, leaves
Called(ws, r) ==
    /\ weights' = ws
    /\ num_of_iterations' = frame_iterations
    /\ damping_factor' = frame_damping_factor
    /\ rank_values' = r.rank_values
    /\ initial_outflow_values' =
           IF SourcesInRange(edges, num_of_nodes)
           THEN InitialOutflow(edges, num_of_nodes) ELSE <<>>
    /\ iteration' = r.iteration
    /\ dangling_rank' = r.dangling_rank
    /\ pc' = IF r.ok THEN "frame" ELSE "panic"

\* lines 140-154: the decayed weights ws and the call of pagerank_variant on
\* them
Call(ws) ==
    Called(ws, pagerank_variant(edges, ws, num_of_nodes, frame_iterations,
                                frame_damping_factor, teleportation_targets))

\* lines 139-160: the frame of time t, the decay of the weights and the call
\* of pagerank_variant on them.  The file written from the ranks is not kept.
FrameAt(t) ==
    /\ t <= max_time
    /\ time' = t
    /\ decay_calls' = DecayCalls(edges, t)
    /\ \E panics \in {c[1] < c[2] : c \in DecayCalls(edges, t)} \cup {FALSE} :
           IF panics
           THEN /\ pc' = "overflow"    \* subtraction overflow at line 17
                /\ UNCHANGED <<weights, engineVars>>
           ELSE Call(DecayedWeights(edges, t))
    /\ UNCHANGED <<edges, num_of_nodes, teleportation_targets,
                   expert_nodes, expert_fraction>>

\* the frame after the one of the state: the first one, time = 0, once the
\* teleport vector is built, and time + 1 after a frame
Frame ==
    \/ pc = "teleport" /\ FrameAt(0)
    \/ pc = "frame" /\ FrameAt(time + 1)

\* the end of the loop of line 139
Finish ==
    /\ pc = "frame"
    /\ time = max_time
    /\ pc' = "finished"
    /\ UNCHANGED <<edges, weights, num_of_nodes, teleportation_targets,
                   engineVars, scenarioVars>>

NextScenario == Teleport \/ Frame \/ Finish

SpecScenario == InitScenario /\ [][NextScenario]_vars

---------------------------------------------------------------------------
(* Claims about pagerank_variant, checked under Spec *)

\* A rank vector exists: the call is past its initialization
Ranked == pc \in {"loop", "done"}

\* C1: mass conservation.  For valid arguments the entries of the rank vector
\* sum to 1 after the uniform initialization and after every iteration.
C1_MassConservation == Valid /\ Ranked => Sum(rank_values) = One

\* C1 witness: a call on a graph with a decayed edge has run all its
\* iterations and left the uniform vector.
C1_Witness ==
    /\ Valid
    /\ pc = "done"
    /\ iteration = MaxIter
    /\ \E k \in 1..Len(weights) : weights[k] = Half
    /\ rank_values # InitialRank(num_of_nodes)

\* C2: fail-fast validation.  When a precondition of run is violated, no
\* iteration runs and no rank vector is returned.
C2_FailFast == ~PreconditionsHold => pc # "done" /\ iteration = 0

\* C6 as claimed: for valid arguments with weights >= 0 (weights above 1
\* included) every rank entry is >= 0 at all times.
C6_NonNegativeAnyWeight == Valid /\ Ranked => NonNegative(rank_values)

WeightsAtMostOne == \A k \in 1..Len(weights) : RLeq(weights[k], One)

\* C6 amended: for valid arguments whose weights lie in [0, 1] every rank
\* entry is >= 0 after the initialization and after every iteration.
C6_NonNegative ==
    Valid /\ WeightsAtMostOne /\ Ranked => NonNegative(rank_values)

\* C6 witness: all iterations have run on decayed weights within [0, 1].
C6_Witness ==
    /\ Valid
    /\ WeightsAtMostOne
    /\ pc = "done"
    /\ iteration = MaxIter
    /\ Len(edges) >= 2
    /\ \E k \in 1..Len(weights) : weights[k] = Half
    /\ \E k \in 1..Len(weights) : weights[k] = Zero

\* The uniform vector 1 / n
Uniform(n) == [i \in 1..n |-> Frac(1, n)]

\* The sum of f[x] over the finite set S
RECURSIVE SumOver(_, _)
SumOver(S, f) ==
    IF S = {} THEN Zero
    ELSE LET x == CHOOSE y \in S : TRUE
         IN  RAdd(f[x], SumOver(S \ {x}, f))

\* The indices of the edges with source (target) node i, nodes counted from 0
EdgesFrom(i) == {k \in 1..Len(edges) : edges[k].source = i}

EdgesTo(i) == {k \in 1..Len(edges) : edges[k].target = i}

StaticOutDegree(i) == Cardinality(EdgesFrom(i))

\* A completed iteration: the step from one rank vector to the next
IterationStep == pc = "loop" /\ pc' = "loop" /\ iteration' = iteration + 1

\* The update of section 4.3 for node t, from the rank vector rank of the
\* previous iteration and the dangling pool
UpdateOf(t, rank, pool) ==
    LET inflow == [k \in EdgesTo(t) |->
            RDiv(RMul(RMul(damping_factor, rank[edges[k].source + 1]), weights[k]),
                 Rat(StaticOutDegree(edges[k].source)))]
    IN  RAdd(RAdd(RMul(RSub(One, damping_factor), teleportation_targets[t + 1]),
                  SumOver(EdgesTo(t), inflow)),
             RDiv(pool, Rat(num_of_nodes)))

WorkedScenario ==
    /\ num_of_nodes = 2
    /\ edges = <<Edge(0, 1, 0)>>
    /\ weights = <<One>>
    /\ damping_factor = Half
    /\ teleportation_targets = <<Half, Half>>

\* C9: synchronous update.  For valid arguments every iteration takes the
\* rank vector to newRank[t] = (1 - d) * teleport[t] + the sum over the edges
\* s -> t of d * rank[s] * w / staticOutDegree[s] + danglingMass / numNodes,
\* read from the previous vector only; every edge source has static
\* out-degree >= 1; and the worked scenario has rank [3/8, 5/8] after its
\* first iteration.
C9_SynchronousUpdate ==
    [][Valid /\ IterationStep =>
          /\ \A k \in 1..Len(edges) :
                 /\ StaticOutDegree(edges[k].source) >= 1
                 /\ initial_outflow_values[edges[k].source + 1]
                        = StaticOutDegree(edges[k].source)
          /\ Len(rank_values') = num_of_nodes
          /\ \A t \in 0..(num_of_nodes - 1) :
                 rank_values'[t + 1] = UpdateOf(t, rank_values, dangling_rank')
          /\ WorkedScenario /\ iteration = 0 =>
                 rank_values' = <<Frac(3, 8), Frac(5, 8)>>
      ]_vars

\* C9 witness: the worked scenario after its first iteration.
C9_Witness ==
    /\ WorkedScenario
    /\ pc = "loop"
    /\ iteration = 1
    /\ rank_values = <<Frac(3, 8), Frac(5, 8)>>

\* The dangling pool of section 4.3, step 3, for rank vector rank
PoolOf(rank) ==
    LET share == [i \in 0..(num_of_nodes - 1) |->
            IF StaticOutDegree(i) = 0
            THEN RMul(damping_factor, rank[i + 1])
            ELSE RMul(RMul(damping_factor, rank[i + 1]),
                      RSub(One, RDiv(SumOver(EdgesFrom(i), weights),
                                     Rat(StaticOutDegree(i)))))]
    IN  SumOver(0..(num_of_nodes - 1), share)

AllWeightsZero == \A k \in 1..Len(weights) : weights[k] = Zero

\* C10: dangling-mass accounting.  For valid arguments the pool of an
\* iteration is the sum of d * rank[i] over the nodes of static out-degree 0
\* and of d * rank[i] * (1 - decayedOutflow[i] / staticOutDegree[i]) over the
\* others; and when every weight is 0, every iteration leaves
\* rank[i] = (1 - d) * teleport[i] + d / numNodes.
C10_DanglingAccounting ==
    [][Valid /\ IterationStep =>
          /\ dangling_rank' = PoolOf(rank_values)
          /\ AllWeightsZero =>
                 /\ dangling_rank' = damping_factor
                 /\ \A i \in 1..num_of_nodes :
                        rank_values'[i] =
                            RAdd(RMul(RSub(One, damping_factor),
                                      teleportation_targets[i]),
                                 RDiv(damping_factor, Rat(num_of_nodes)))
      ]_vars

\* C10 witness: an iteration has run on a graph in which one node has no
\* edge and another has only edges of weight 0, and the whole damped mass is
\* in the pool.
C10_Witness ==
    /\ Valid
    /\ pc = "loop"
    /\ iteration >= 1
    /\ \E i, j \in 0..(num_of_nodes - 1) :
           /\ StaticOutDegree(i) = 0
           /\ StaticOutDegree(j) >= 1
           /\ \A k \in EdgesFrom(j) : weights[k] = Zero
    /\ RLess(Zero, dangling_rank)
    /\ dangling_rank = damping_factor

---------------------------------------------------------------------------
(* Claims about plot_scenario, checked under SpecScenario *)

\* The teleport vector has been built
TeleportBuilt == pc \in {"teleport", "frame", "finished"}

\* C3: an empty expert set with an expert fraction above 0 is rejected: no
\* teleport vector is built from it, and so none that sums to less than 1.
C3_EmptyExpertsRejected ==
    expert_nodes = <<>> /\ RLess(Zero, expert_fraction) => ~TeleportBuilt

\* The set of the entries of a sequence: the sequence with duplicates removed
Range(s) == {s[k] : k \in 1..Len(s)}

\* The teleport vector of section 4.2 for the expert set S: the base share for
\* every node and fraction / |S| more for every expert
TeleportOfSet(n, S, fraction) ==
    [i \in 1..n |->
        IF (i - 1) \in S
        THEN RAdd(BaseShare(fraction, n), RDiv(fraction, Rat(Cardinality(S))))
        ELSE BaseShare(fraction, n)]

\* C4: duplicate experts are idempotent.  The vector built from an expert list
\* is the vector of the list without its duplicates: every distinct expert
\* holds the base share and fraction / (number of distinct experts).
C4_DuplicatesIdempotent ==
    TeleportBuilt /\ expert_nodes # <<>> =>
        teleportation_targets
            = TeleportOfSet(num_of_nodes, Range(expert_nodes), expert_fraction)

\* C5: for num_of_nodes > 0, a non-empty expert list of nodes of the graph
\* and a fraction in [0, 1] the teleport vector has num_of_nodes entries,
\* each >= 0 and >= the base share (1 - fraction) / num_of_nodes, and the
\* entries sum to 1.
C5_TeleportVector ==
    /\ TeleportBuilt
    /\ num_of_nodes > 0
    /\ expert_nodes # <<>>
    /\ \A k \in 1..Len(expert_nodes) : expert_nodes[k] < num_of_nodes
    /\ RLeq(Zero, expert_fraction) /\ RLeq(expert_fraction, One)
    =>
        /\ Len(teleportation_targets) = num_of_nodes
        /\ \A i \in 1..num_of_nodes :
               /\ RLeq(Zero, teleportation_targets[i])
               /\ RLeq(RDiv(RSub(One, expert_fraction), Rat(num_of_nodes)),
                       teleportation_targets[i])
        /\ Sum(teleportation_targets) = One

\* C5 witness: a vector built for the fraction 0.8 from a list that names one
\* expert twice and another once.
C5_Witness ==
    /\ pc = "teleport"
    /\ expert_fraction = EXPERT_TELEPORT_FRACTION
    /\ Len(expert_nodes) = 3
    /\ Cardinality(Range(expert_nodes)) = 2
    /\ Cardinality(Range(teleportation_targets)) = 2

\* The rank vector after k iterations from rank vector r on the arguments of
\* the last call
RECURSIVE IteratedFrom(_, _)
IteratedFrom(r, k) ==
    IF k = 0 THEN r
    ELSE IteratedFrom(IterationBody(edges, weights, num_of_nodes, damping_factor,
                          teleportation_targets, r,
                          InitialOutflow(edges, num_of_nodes)).rank_values,
                      k - 1)

\* pagerank_variant called now, after the snapshots computed so far, on the
\* arguments of the last call but for 0 iterations
CalledForNoIteration ==
    pagerank_variant(edges, weights, num_of_nodes, 0, damping_factor,
                     teleportation_targets).rank_values

\* C8: statelessness.  The ranks of every frame, the first one and every
\* later one alike, are the iteration of the arguments of its own call from
\* the uniform vector, whatever the frames before it computed; and a call
\* for 0 iterations made after it returns the uniform vector.
C8_Stateless ==
    pc = "frame" =>
        /\ rank_values = IteratedFrom(Uniform(num_of_nodes), num_of_iterations)
        /\ CalledForNoIteration = Uniform(num_of_nodes)

\* C8 witness: a frame of the scenario of main whose ranks are not uniform and
\* follow frames with other weights, which left other ranks.
C8_Witness ==
    /\ pc = "frame"
    /\ edges = MainEdges
    /\ time >= 7
    /\ iteration = frame_iterations
    /\ rank_values # Uniform(num_of_nodes)
    /\ \A k \in 1..Len(weights) : RLess(Zero, weights[k]) /\ RLess(weights[k], One)

\* C7: at every frame an edge created later has weight 0, an edge created at
\* the frame has weight exactly 1, and exponential_decay was called with
\* t1 >= t0 only, so that t1 - t0 never underflows.
C7_WeightAtCreation ==
    /\ pc # "overflow"
    /\ pc = "frame" =>
           /\ Len(weights) = Len(edges)
           /\ \A k \in 1..Len(edges) :
                  /\ time < edges[k].time_of_creation => weights[k] = Zero
                  /\ time = edges[k].time_of_creation => weights[k] = One
           /\ \A c \in decay_calls : c[1] = time /\ c[1] >= c[2]

\* C7 witness: a frame of the scenario of main at which one edge is being
\* created, one is not created yet and one has decayed.
C7_Witness ==
    /\ pc = "frame"
    /\ edges = MainEdges
    /\ \E j, k, l \in 1..Len(edges) :
           /\ edges[j].time_of_creation = time /\ weights[j] = One
           /\ edges[k].time_of_creation > time /\ weights[k] = Zero
           /\ edges[l].time_of_creation < time /\ RLess(weights[l], One)
                                               /\ RLess(Zero, weights[l])
           /\ <<time, edges[l].time_of_creation>> \in decay_calls

===========================================================================
